---- MODULE Spec2Model ----
(***************************************************************************)
(* A model of the BaZi report generator.                                   *)
(*                                                                         *)
(*  - frontend/scripts/app.js: the input validation functions, the form    *)
(*    submit listener (an async function), displayResults, the "new        *)
(*    report" listener and the DOM state they read and write.              *)
(*  - the backend pipeline orchestrator and the geocoding resolver, whose  *)
(*    code is not part of the sources at hand: they are modelled from the  *)
(*    written specification (sections 4.2, 4.6, 5 and 7).                  *)
(*                                                                         *)
(* Time is counted in minutes since 1970-01-01T00:00Z.  JavaScript counts  *)
(* milliseconds; every instant the model handles lies on a whole minute,   *)
(* so that comparing against 23:59:59.999 and against 23:59 agree.         *)
(*                                                                         *)
(* A JavaScript string is a sequence of one-character strings.             *)
(***************************************************************************)
EXTENDS Integers, Sequences, FiniteSets, TLC

VARIABLES
    now,            \* what new Date() returns: minutes since the epoch, UTC
    tz,             \* the client's zone: local time = UTC + tz minutes
    call,           \* the last validator call: function, argument, outcome
    formFields,     \* the values of the form's controls
    submitBtn,      \* [disabled, loading]: the submit button
    errorMessage,   \* [visible, text]: the #errorMessage element
    resultsVisible, \* resultsCard has the class 'visible'
    formCardDisplay,\* formCard.style.display: "", "none" or "block"
    summaryOf,      \* the request data whose summary the result elements show
    handlers,       \* the runs of the submit listener awaiting, in order of start
    lastPost,       \* the body of the last POST to /api/generate-report
    lastDone,       \* how the last finished run of the submit listener ended
    lastEvent,      \* the event handled last
    pipelines,      \* backend: the orchestrator's state, per request
    resolvers,      \* backend: the geocoding resolutions, per request
    geoCache,       \* backend: normalized location text -> resolution
    geoCalls,       \* backend: the outbound geocoding calls, in order
    limiterPermit   \* backend: the limiter's permit for the current second

valVars == <<now, tz, call>>
uiVars == <<formFields, submitBtn, errorMessage, resultsVisible,
            formCardDisplay, summaryOf, handlers, lastPost, lastDone,
            lastEvent>>
pipeVars == <<pipelines>>
geoVars == <<resolvers, geoCache, geoCalls, limiterPermit>>
vars == <<now, tz, call, formFields, submitBtn, errorMessage, resultsVisible,
          formCardDisplay, summaryOf, handlers, lastPost, lastDone, lastEvent,
          pipelines, resolvers, geoCache, geoCalls, limiterPermit>>

(***************************************************************************)
(* Bounds of the model.                                                    *)
(***************************************************************************)
\* Dates are drawn from the days within DaySpan of 1900-01-01 and of today.
DaySpan == 2
\* Text is padded with up to MaxPad whitespace characters on each side.
MaxPad == 2
\* Location bodies have lengths within LenSlack of the limits 3 and 100.
LenSlack == 2

(***************************************************************************)
(* JavaScript values.                                                      *)
(***************************************************************************)
Null == [t |-> "null"]                      \* null and undefined
Str(s) == [t |-> "string", s |-> s]
Num(n) == [t |-> "number", n |-> n]
Obj == [t |-> "object"]                     \* an object without a trim method

\* ToBoolean: null, undefined, '' and 0 are falsy.
Truthy(v) ==
    CASE v.t = "null" -> FALSE
      [] v.t = "string" -> v.s # <<>>
      [] v.t = "number" -> v.n # 0
      [] OTHER -> TRUE

\* String.prototype.trim strips white space and line terminators.
WhiteSpace == {" ", "\t", "\n"}

RECURSIVE TrimStart(_)
TrimStart(s) ==
    IF s # <<>> /\ Head(s) \in WhiteSpace THEN TrimStart(Tail(s)) ELSE s

RECURSIVE TrimEnd(_)
TrimEnd(s) ==
    IF s # <<>> /\ s[Len(s)] \in WhiteSpace
    THEN TrimEnd(SubSeq(s, 1, Len(s) - 1))
    ELSE s

Trim(s) == TrimEnd(TrimStart(s))

(***************************************************************************)
(* Date: the conversions new Date(string) performs on a date-only string   *)
(* YYYY-MM-DD (ECMAScript: a date-only form is read as UTC midnight).      *)
(***************************************************************************)
Digits == <<"0", "1", "2", "3", "4", "5", "6", "7", "8", "9">>
IsDigit(c) == \E i \in 1..10 : Digits[i] = c
DigitVal(c) == (CHOOSE i \in 1..10 : Digits[i] = c) - 1

IsLeap(y) == (y % 4 = 0 /\ y % 100 # 0) \/ y % 400 = 0
DaysInMonth(y, m) ==
    IF m = 2 THEN (IF IsLeap(y) THEN 29 ELSE 28)
    ELSE IF m \in {4, 6, 9, 11} THEN 30 ELSE 31

\* Days from 1970-01-01 to the civil date y-m-d (proleptic Gregorian).
DaysFromCivil(y, m, d) ==
    LET yy == IF m <= 2 THEN y - 1 ELSE y
        era == yy \div 400
        yoe == yy - era * 400
        mp == IF m > 2 THEN m - 3 ELSE m + 9
        doy == (153 * mp + 2) \div 5 + d - 1
        doe == yoe * 365 + yoe \div 4 - yoe \div 100 + doy
    IN era * 146097 + doe - 719468

\* The civil date of a day number: the inverse, used to write dates down.
CivilFromDays(z) ==
    LET zz == z + 719468
        era == zz \div 146097
        doe == zz - era * 146097
        yoe == (doe - doe \div 1460 + doe \div 36524 - doe \div 146096) \div 365
        doy == doe - (365 * yoe + yoe \div 4 - yoe \div 100)
        mp == (5 * doy + 2) \div 153
        dd == doy - (153 * mp + 2) \div 5 + 1
        mm == IF mp < 10 THEN mp + 3 ELSE mp - 9
        yy == yoe + era * 400 + (IF mm <= 2 THEN 1 ELSE 0)
    IN [y |-> yy, m |-> mm, d |-> dd]

\* The text a date input holds for a civil date: YYYY-MM-DD.
FormatISODate(c) ==
    LET Dig(n) == Digits[(n % 10) + 1]
    IN <<Dig(c.y \div 1000), Dig(c.y \div 100), Dig(c.y \div 10), Dig(c.y),
         "-", Dig(c.m \div 10), Dig(c.m), "-", Dig(c.d \div 10), Dig(c.d)>>

IsISODateShape(s) ==
    /\ Len(s) = 10
    /\ s[5] = "-" /\ s[8] = "-"
    /\ \A i \in {1, 2, 3, 4, 6, 7, 9, 10} : IsDigit(s[i])

\* The year, month and day fields a date-only string is read to.
ParseYMD(s) ==
    [y |-> DigitVal(s[1]) * 1000 + DigitVal(s[2]) * 100
           + DigitVal(s[3]) * 10 + DigitVal(s[4]),
     m |-> DigitVal(s[6]) * 10 + DigitVal(s[7]),
     d |-> DigitVal(s[9]) * 10 + DigitVal(s[10])]

NaN == [nan |-> TRUE]
Instant(t) == [nan |-> FALSE, t |-> t]

\* new Date(s).getTime(), in minutes: NaN for text that is no date.
ParseDate(s) ==
    IF ~IsISODateShape(s) THEN NaN
    ELSE LET c == ParseYMD(s)
         IN IF c.m \in 1..12 /\ c.d \in 1..DaysInMonth(c.y, c.m)
            THEN Instant(DaysFromCivil(c.y, c.m, c.d) * 1440)
            ELSE NaN

\* today.setHours(23, 59, 59, 999): the end of the client's local day.
EndOfToday(n, z) == ((n + z) \div 1440) * 1440 + 1439 - z

minDate_1899 == ParseDate(<<"1", "8", "9", "9", "-", "0", "1", "-", "0", "1">>)
minDate == ParseDate(<<"1", "9", "0", "0", "-", "0", "1", "-", "0", "1">>)

(***************************************************************************)
(* The validation functions.  A call either returns {valid, message} or    *)
(* throws.                                                                 *)
(***************************************************************************)
Valid == [kind |-> "return", valid |-> TRUE]
Invalid(msg) == [kind |-> "return", valid |-> FALSE, message |-> msg]
Throws(e) == [kind |-> "throw", error |-> e]

MsgDateRequired == "Birth date is required"
MsgDateInvalid == "Please enter a valid date"
MsgDateFuture == "Birth date cannot be in the future"
MsgDateMin == "Birth date must be after 1900"
MsgLocRequired == "Birth location is required"
MsgLocShort == "Location must be at least 3 characters"
MsgLocLong == "Location is too long (max 100 characters)"
MsgTimeRequired == "Birth time is required"
MsgGenderRequired == "Please select a gender"
MsgGenderInvalid == "Gender must be male or female"

\* `!v || v.trim() === ''`: TRUE, FALSE, or a TypeError when a truthy v has
\* no trim method.
BlankTest(v) ==
    IF ~Truthy(v) THEN "blank"
    ELSE IF v.t # "string" THEN "TypeError"
    ELSE IF Trim(v.s) = <<>> THEN "blank" ELSE "text"

validateDate(dateStr, n, z) ==
    LET b == BlankTest(dateStr)
    IN IF b = "TypeError" THEN Throws("TypeError")
       ELSE IF b = "blank" THEN Invalid(MsgDateRequired)
       ELSE LET date == ParseDate(dateStr.s)
                today == EndOfToday(n, z)
            IN IF date.nan THEN Invalid(MsgDateInvalid)
               ELSE IF date.t > today THEN Invalid(MsgDateFuture)
               ELSE IF date.t < minDate.t THEN Invalid(MsgDateMin)
               ELSE Valid

validateLocation_NoTrim(location) ==
    LET b == BlankTest(location)
    IN IF b = "TypeError" THEN Throws("TypeError")
       ELSE IF b = "blank" THEN Invalid(MsgLocRequired)
       ELSE IF Len(location.s) < 3 THEN Invalid(MsgLocShort)
       ELSE IF Len(location.s) > 100 THEN Invalid(MsgLocLong)
       ELSE Valid

validateLocation(location) ==
    LET b == BlankTest(location)
    IN IF b = "TypeError" THEN Throws("TypeError")
       ELSE IF b = "blank" THEN Invalid(MsgLocRequired)
       ELSE LET trimmed == Trim(location.s)
            IN IF Len(trimmed) < 3 THEN Invalid(MsgLocShort)
               ELSE IF Len(trimmed) > 100 THEN Invalid(MsgLocLong)
               ELSE Valid

validateTime(timeStr) ==
    LET b == BlankTest(timeStr)
    IN IF b = "TypeError" THEN Throws("TypeError")
       ELSE IF b = "blank" THEN Invalid(MsgTimeRequired)
       ELSE Valid

MALE == <<"m", "a", "l", "e">>
FEMALE == <<"f", "e", "m", "a", "l", "e">>

validateGender(gender) ==
    IF ~Truthy(gender) THEN Invalid(MsgGenderRequired)
    ELSE IF gender # Str(MALE) /\ gender # Str(FEMALE)
         THEN Invalid(MsgGenderInvalid)
    ELSE Valid

\* errors.push(result.message) for a failing field.
PushError(errors, result) ==
    IF result.valid THEN errors ELSE Append(errors, result.message)

\* validateForm(data): data is Null or a record of the four fields.
validateForm(data, n, z) ==
    IF data = Null THEN Throws("TypeError")
    ELSE LET dateResult == validateDate(data.birth_date, n, z)
             timeResult == validateTime(data.birth_time)
             locationResult == validateLocation(data.location)
             genderResult == validateGender(data.gender)
         IN IF dateResult.kind = "throw" THEN dateResult
            ELSE IF timeResult.kind = "throw" THEN timeResult
            ELSE IF locationResult.kind = "throw" THEN locationResult
            ELSE LET errors == PushError(PushError(PushError(PushError(<<>>,
                                   dateResult), timeResult), locationResult),
                                   genderResult)
                 IN [kind |-> "return", valid |-> Len(errors) = 0,
                     errors |-> errors]

(***************************************************************************)
(* The inputs the validation functions are applied to.                     *)
(***************************************************************************)
\* The day the model's clock shows, and the instants of it that are tried.
BaseDay == DaysFromCivil(2026, 11, 2)
Clocks == {BaseDay * 1440 + m : m \in {0, 720, 1439}}
\* Zones from UTC-10:00 to UTC+14:00.
Zones == {-600, -300, 0, 330, 840}

\* k whitespace characters.
Pad(k) == [i \in 1..k |-> IF i % 2 = 1 THEN " " ELSE "\t"]

\* A text of n characters that starts and ends with a letter; the variant
\* "inner" has white space inside.
Body(n, variant) ==
    [i \in 1..n |-> IF variant = "inner" /\ i = 2 /\ n >= 3 THEN " "
                    ELSE IF i % 2 = 1 THEN "a" ELSE "B"]

DateDays(n, z) ==
    LET minDay == minDate.t \div 1440
        localDay == (n + z) \div 1440
    IN (minDay - DaySpan .. minDay + DaySpan)
           \cup (localDay - DaySpan .. localDay + DaySpan)

NotADate == {<<"a", "b", "c">>,
             <<"1", "9", "9", "3", "-", "1", "3", "-", "0", "1">>}

DateTexts(n, z) ==
    {FormatISODate(CivilFromDays(d)) : d \in DateDays(n, z)} \cup NotADate

NonText == {Null, Num(0), Num(19930928), Obj}

DateArgs(n, z) ==
    NonText \cup {Str(Pad(k)) : k \in 0..MaxPad}
            \cup {Str(t) : t \in DateTexts(n, z)}

BodyLens == (0 .. 3 + LenSlack) \cup (100 - LenSlack .. 100 + LenSlack)

LocationArgs ==
    NonText \cup
    {Str(Pad(l) \o Body(n, v) \o Pad(r)) :
        l \in 0..MaxPad, r \in 0..MaxPad, n \in BodyLens,
        v \in {"plain", "inner"}}

TimeArgs ==
    {Null, Num(1), Str(<<"0", "2", ":", "2", "2">>)}
        \cup {Str(Pad(k)) : k \in 0..MaxPad}

GenderArgs ==
    {Null, Num(1), Str(<<>>), Str(MALE), Str(FEMALE), Str(<<"M", "a", "l", "e">>),
     Str(<<"o", "t", "h", "e", "r">>)}

\* The location values validateForm is tried on.
FormLocationArgs ==
    {Null, Obj, Str(Body(2, "plain")), Str(Pad(1) \o Body(9, "inner")),
     Str(Body(100 + LenSlack, "plain"))}

FormDataArgs(n, z) ==
    {Null} \cup
    [birth_date : DateArgs(n, z), birth_time : TimeArgs,
     location : FormLocationArgs, gender : GenderArgs]

NoCall == [fn |-> "none"]

ValInit ==
    /\ now \in Clocks
    /\ tz \in Zones
    /\ call = NoCall

(***************************************************************************)
(* The rest of the state when only the validation functions are run.       *)
(***************************************************************************)
UIIdle ==
    /\ formFields = [birth_date |-> Str(<<>>), birth_time |-> Str(<<>>),
                     location |-> Str(<<>>), gender |-> Null]
    /\ submitBtn = [disabled |-> FALSE, loading |-> FALSE]
    /\ errorMessage = [visible |-> FALSE, text |-> ""]
    /\ resultsVisible = FALSE
    /\ formCardDisplay = ""
    /\ summaryOf = Null
    /\ handlers = <<>>
    /\ lastPost = Null
    /\ lastDone = [outcome |-> "none"]
    /\ lastEvent = "load"

PipeIdle == pipelines = <<>>

GeoIdle ==
    /\ resolvers = <<>>
    /\ geoCache = {}
    /\ geoCalls = <<>>
    /\ limiterPermit = TRUE

CallValidateDate ==
    /\ call = NoCall
    /\ \E v \in DateArgs(now, tz) :
          call' = [fn |-> "validateDate", arg |-> v,
                   res |-> validateDate(v, now, tz)]
    /\ UNCHANGED <<now, tz, uiVars, pipeVars, geoVars>>

CallValidateTime ==
    /\ call = NoCall
    /\ \E v \in TimeArgs :
          call' = [fn |-> "validateTime", arg |-> v, res |-> validateTime(v)]
    /\ UNCHANGED <<now, tz, uiVars, pipeVars, geoVars>>

CallValidateLocation ==
    /\ call = NoCall
    /\ \E v \in LocationArgs :
          call' = [fn |-> "validateLocation", arg |-> v,
                   res |-> validateLocation(v)]
    /\ UNCHANGED <<now, tz, uiVars, pipeVars, geoVars>>

CallValidateGender ==
    /\ call = NoCall
    /\ \E v \in GenderArgs :
          call' = [fn |-> "validateGender", arg |-> v,
                   res |-> validateGender(v)]
    /\ UNCHANGED <<now, tz, uiVars, pipeVars, geoVars>>

CallValidateForm ==
    /\ call = NoCall
    /\ \E data \in FormDataArgs(now, tz) :
          call' = [fn |-> "validateForm", arg |-> data,
                   res |-> validateForm(data, now, tz)]
    /\ UNCHANGED <<now, tz, uiVars, pipeVars, geoVars>>

\* Each behaviour applies one validation function to one input: the functions
\* keep no state between calls.
ValInitAll == ValInit /\ UIIdle /\ PipeIdle /\ GeoIdle

ValNext ==
    \/ CallValidateDate
    \/ CallValidateTime
    \/ CallValidateLocation
    \/ CallValidateGender
    \/ CallValidateForm

SpecValidator == ValInitAll /\ [][ValNext]_vars

(***************************************************************************)
(* Properties of the validation functions.                                 *)
(***************************************************************************)
\* v is text that reads as a date.
IsDateText(v) == v.t = "string" /\ ~ParseDate(v.s).nan

\* v is text or absent: what FormData.get supplies.
IsFormValue(v) == v.t \in {"string", "null"}

IsFormData(data) ==
    /\ data # Null
    /\ IsFormValue(data.birth_date) /\ IsFormValue(data.birth_time)
    /\ IsFormValue(data.location) /\ IsFormValue(data.gender)

\* v is a date before 1900-01-01: its year is below 1900.
Before1900(v) == IsDateText(v) /\ ParseYMD(v.s).y < 1900

\* The members of a sequence.
Range(q) == {q[i] : i \in 1..Len(q)}

\* C1: a birth date that reads as a calendar date before 1900-01-01 makes
\* validateDate return {valid: false, message: 'Birth date must be after
\* 1900'}, and makes validateForm (on the values a form supplies) report the
\* form invalid with that message among its errors.
C1_MinDateRejected ==
    /\ (call.fn = "validateDate" /\ Before1900(call.arg))
          => call.res = Invalid(MsgDateMin)
    /\ (call.fn = "validateForm" /\ IsFormData(call.arg)
            /\ Before1900(call.arg.birth_date))
          => /\ call.res.kind = "return"
             /\ ~call.res.valid
             /\ MsgDateMin \in Range(call.res.errors)

C1_Witness ==
    /\ call.fn = "validateForm"
    /\ IsFormData(call.arg)
    /\ Before1900(call.arg.birth_date)
    /\ ParseYMD(call.arg.birth_date.s) = [y |-> 1899, m |-> 12, d |-> 31]
    /\ call.res.kind = "return"
    /\ call.res.errors = <<MsgDateMin>>

\* The day number of the date a date text denotes.
WrittenDay(v) ==
    LET c == ParseYMD(v.s) IN DaysFromCivil(c.y, c.m, c.d)

\* The current date, as a day number: in the client's zone, and in UTC.
LocalDay == (now + tz) \div 1440
UtcDay == now \div 1440

\* C2: a birth date strictly after the current date is rejected by
\* validateDate: no date later than the moment of validation is accepted,
\* whatever the time of day and the client's zone.  The case is taken at its
\* narrowest: the date is after today in the client's zone and in UTC, and
\* its instant is after now.
C2_FutureRejected ==
    (/\ call.fn = "validateDate"
     /\ IsDateText(call.arg)
     /\ WrittenDay(call.arg) > LocalDay
     /\ WrittenDay(call.arg) > UtcDay
     /\ ParseDate(call.arg.s).t > now)
        => (call.res.kind = "return" /\ ~call.res.valid)

\* The number of characters left when the white space at both ends is
\* dropped: those with a character that is not white space at or before
\* them and at or after them.
TrimmedLength(s) ==
    Cardinality({i \in 1..Len(s) :
                    /\ \E j \in 1..i : s[j] \notin WhiteSpace
                    /\ \E k \in i..Len(s) : s[k] \notin WhiteSpace})

\* C3: validateLocation rejects a location string whose length after
\* trimming is below 3 (empty and white space only included) or above 100,
\* and accepts one whose trimmed length is in 3..100: the decision is a
\* function of the trimmed length.
C3_LocationByTrimmedLength ==
    (call.fn = "validateLocation" /\ call.arg.t = "string")
        => /\ call.res.kind = "return"
           /\ call.res.valid <=> TrimmedLength(call.arg.s) \in 3..100

C3_Witness ==
    /\ call.fn = "validateLocation"
    /\ call.arg.t = "string"
    /\ Len(call.arg.s) > 100
    /\ TrimmedLength(call.arg.s) = 100
    /\ call.res = Valid

\* C4: whatever raw value a validation function is given (absent, empty,
\* white space, unparseable, not text), it returns a result and does not
\* throw.
C4_NeverThrows == call.fn # "none" => call.res.kind = "return"

DateMessages == {MsgDateRequired, MsgDateInvalid, MsgDateFuture, MsgDateMin}
TimeMessages == {MsgTimeRequired}
LocationMessages == {MsgLocRequired, MsgLocShort, MsgLocLong}
GenderMessages == {MsgGenderRequired, MsgGenderInvalid}

MessagesOf(fld) ==
    CASE fld = "date" -> DateMessages
      [] fld = "time" -> TimeMessages
      [] fld = "location" -> LocationMessages
      [] fld = "gender" -> GenderMessages

\* The four field rules, as the claim words them.
RulePasses(fld, data, today) ==
    CASE fld = "date" ->
            /\ IsDateText(data.birth_date)
            /\ WrittenDay(data.birth_date) >= DaysFromCivil(1900, 1, 1)
            /\ WrittenDay(data.birth_date) <= today
      [] fld = "time" ->
            /\ data.birth_time.t = "string"
            /\ TrimmedLength(data.birth_time.s) > 0
      [] fld = "location" ->
            /\ data.location.t = "string"
            /\ TrimmedLength(data.location.s) \in 3..100
      [] fld = "gender" -> data.gender \in {Str(MALE), Str(FEMALE)}

FieldOrder == <<"date", "time", "location", "gender">>

\* C10: validateForm returns valid = true exactly when the four field rules
\* pass (the date reads as a date within [1900-01-01, today], the time is
\* not empty, the trimmed location has 3 to 100 characters, the gender is
\* 'male' or 'female'); otherwise errors holds one message for each failing
\* field, in the order date, time, location, gender; valid is true exactly
\* when errors is empty.  "Today" is read as the current date of the client's
\* zone or as that of UTC, whichever agrees with the result.
C10_FormValidExactly ==
    (call.fn = "validateForm" /\ IsFormData(call.arg))
        => \E today \in {LocalDay, UtcDay} :
              LET Fails(fld) == ~RulePasses(fld, call.arg, today)
                  failing == SelectSeq(FieldOrder, Fails)
              IN /\ call.res.kind = "return"
                 /\ call.res.valid <=> failing = <<>>
                 /\ Len(call.res.errors) = Len(failing)
                 /\ \A i \in 1..Len(failing) :
                       call.res.errors[i] \in MessagesOf(failing[i])
                 /\ call.res.valid <=> call.res.errors = <<>>

(***************************************************************************)
(* The page: the form, the submit listener, the responses of the backend   *)
(* and the "new report" button.                                            *)
(***************************************************************************)
\* How many runs of the submit listener may await a response at once: the
\* cap of the model, which the listener itself does not reach.
MaxInFlight == 2

MsgRateLimit ==
    "Rate limit exceeded. Please wait a few minutes before trying again."
MsgGenerationFailed == "Report generation failed"
MsgSomethingWrong == "Something went wrong. Please try again."
\* Messages of errors the browser raises.
MsgFailedToFetch == "Failed to fetch"
MsgJsonSyntax == "Unexpected token in JSON"
MsgNullProperty == "Cannot read properties of null"
MsgUndefinedProperty == "Cannot read properties of undefined"
\* Messages a backend body may carry.
MsgBackendDetail == "Calculation service unavailable"
MsgBackendError == "Internal error"

\* The texts the form's controls are set to.
TextBefore1900 == FormatISODate(CivilFromDays(minDate.t \div 1440 - 1))
TextBirthDate == FormatISODate([y |-> 1993, m |-> 9, d |-> 28])
TextBirthTime == <<"0", "2", ":", "2", "2">>

EmptyFields ==
    [birth_date |-> Str(<<>>), birth_time |-> Str(<<>>),
     location |-> Str(<<>>), gender |-> Null]

GoodFields ==
    [birth_date |-> Str(TextBirthDate), birth_time |-> Str(TextBirthTime),
     location |-> Str(Pad(1) \o Body(9, "inner") \o Pad(1)),
     gender |-> Str(MALE)]

FormChoices ==
    {EmptyFields, GoodFields,
     [GoodFields EXCEPT !.location = Str(Body(3, "plain"))],
     [GoodFields EXCEPT !.birth_date = Str(TextBefore1900)],
     [GoodFields EXCEPT !.birth_time = Str(<<>>)],
     [GoodFields EXCEPT !.location = Str(Pad(1) \o Body(2, "plain"))],
     [GoodFields EXCEPT !.gender = Null],
     [GoodFields EXCEPT !.birth_time = Str(<<>>), !.gender = Null]}

\* formData.get('location')?.trim()
OptionalTrim(v) == IF v.t = "string" THEN Str(Trim(v.s)) ELSE Null

\* The data object the submit listener builds from the form.
CollectData(fields) ==
    [birth_date |-> fields.birth_date, birth_time |-> fields.birth_time,
     location |-> OptionalTrim(fields.location), gender |-> fields.gender]

\* validation.errors[0]
LastError(errors) == errors[Len(errors)]
FirstError(errors) == errors[1]

\* response.ok
ResponseOk_Always(status) == TRUE
ResponseOk(status) == status \in 200..299

Statuses == {200, 422, 429, 500}

\* The bodies a response may carry: text that is no JSON, the JSON null, or
\* a JSON object with some of the members the page reads.
JsonObject(detailMessage, error, summary, files) ==
    [json |-> "object", detailMessage |-> detailMessage, error |-> error,
     bazi_summary |-> summary, files |-> files]

Bodies ==
    {[json |-> "invalid"], [json |-> "null"],
     JsonObject("", "", TRUE, TRUE),
     JsonObject("", "", TRUE, FALSE),
     JsonObject("", "", FALSE, FALSE),
     JsonObject(MsgBackendDetail, "", FALSE, FALSE),
     JsonObject("", MsgBackendError, FALSE, FALSE)}

\* a || b || c on message texts: the first that is not empty.
FirstNonEmpty(a, b, c) == IF a # "" THEN a ELSE IF b # "" THEN b ELSE c

\* What the listener's try block does with a response once its body has
\* been read: the message of the error thrown ("threw"), whether
\* displayResults was called, whether it filled the summary elements, and
\* whether it swapped the form card for the results card.
Thrown(msg, called, filled) ==
    [threw |-> TRUE, message |-> msg, displayCalled |-> called,
     summarySet |-> filled, shown |-> FALSE]

displayResults(result) ==
    IF result.json = "null" THEN Thrown(MsgNullProperty, TRUE, FALSE)
    ELSE IF ~result.bazi_summary THEN Thrown(MsgUndefinedProperty, TRUE, FALSE)
    ELSE IF ~result.files THEN Thrown(MsgUndefinedProperty, TRUE, TRUE)
    ELSE [threw |-> FALSE, message |-> "", displayCalled |-> TRUE,
          summarySet |-> TRUE, shown |-> TRUE]

HandleResponse(status, body) ==
    IF body.json = "invalid" THEN Thrown(MsgJsonSyntax, FALSE, FALSE)
    ELSE IF ~ResponseOk(status)
         THEN IF status = 429 THEN Thrown(MsgRateLimit, FALSE, FALSE)
              ELSE IF body.json = "null"
                   THEN Thrown(MsgNullProperty, FALSE, FALSE)
              ELSE Thrown(FirstNonEmpty(body.detailMessage, body.error,
                                        MsgGenerationFailed), FALSE, FALSE)
    ELSE displayResults(body)

\* showError(error.message || 'Something went wrong. Please try again.')
CaughtMessage(msg) == IF msg # "" THEN msg ELSE MsgSomethingWrong

showError(message) == [visible |-> TRUE, text |-> message]
hideError == [visible |-> FALSE, text |-> ""]
setLoading_NoDisable(isLoading) == [disabled |-> FALSE, loading |-> isLoading]
setLoading(isLoading) == [disabled |-> isLoading, loading |-> isLoading]

\* The form can be used: its card is not hidden.
FormDisplayed == formCardDisplay # "none"

UIInit ==
    /\ formFields = EmptyFields
    /\ submitBtn = [disabled |-> FALSE, loading |-> FALSE]
    /\ errorMessage = [visible |-> FALSE, text |-> ""]
    /\ resultsVisible = FALSE
    /\ formCardDisplay = ""
    /\ summaryOf = Null
    /\ handlers = <<>>
    /\ lastPost = Null
    /\ lastDone = [outcome |-> "none"]
    /\ lastEvent = "load"

\* The user changes the values of the form's controls.
EditForm ==
    /\ FormDisplayed
    /\ \E f \in FormChoices : f # formFields /\ formFields' = f
    /\ lastEvent' = "edit"
    /\ UNCHANGED <<submitBtn, errorMessage, resultsVisible, formCardDisplay,
                   summaryOf, handlers, lastPost, lastDone>>
    /\ UNCHANGED <<valVars, pipeVars, geoVars>>

\* The submit listener up to its first await.  A submit event comes from the
\* enabled submit button of a form that is displayed.
Submit ==
    /\ FormDisplayed
    /\ ~submitBtn.disabled
    /\ Len(handlers) < MaxInFlight
    /\ lastEvent' = "submit"
    /\ LET data == CollectData(formFields)
           validation == validateForm(data, now, tz)
       IN IF validation.kind = "throw"
          THEN /\ errorMessage' = hideError
               /\ lastDone' = [outcome |-> "threw"]
               /\ UNCHANGED <<submitBtn, resultsVisible, handlers, lastPost>>
          ELSE IF ~validation.valid
          THEN /\ errorMessage' = showError(FirstError(validation.errors))
               /\ lastDone' = [outcome |-> "invalid"]
               /\ UNCHANGED <<submitBtn, resultsVisible, handlers, lastPost>>
          ELSE /\ errorMessage' = hideError
               /\ submitBtn' = setLoading(TRUE)
               /\ resultsVisible' = FALSE
               /\ handlers' = Append(handlers, [pc |-> "awaitFetch",
                                                data |-> data, status |-> 0])
               /\ lastPost' = data
               /\ UNCHANGED lastDone
    /\ UNCHANGED <<formFields, formCardDisplay, summaryOf>>
    /\ UNCHANGED <<valVars, pipeVars, geoVars>>

\* handlers without its i-th run.
Without(q, i) == SubSeq(q, 1, i - 1) \o SubSeq(q, i + 1, Len(q))

\* fetch resolves with a response: its status line and headers have come.
FetchResolve(i) ==
    /\ handlers[i].pc = "awaitFetch"
    /\ \E status \in Statuses :
          handlers' = [handlers EXCEPT ![i].pc = "awaitJson",
                                       ![i].status = status]
    /\ lastEvent' = "response"
    /\ UNCHANGED <<formFields, submitBtn, errorMessage, resultsVisible,
                   formCardDisplay, summaryOf, lastPost, lastDone>>
    /\ UNCHANGED <<valVars, pipeVars, geoVars>>

\* fetch rejects (the network failed): catch, then finally.
FetchReject(i) ==
    /\ handlers[i].pc = "awaitFetch"
    /\ \E msg \in {MsgFailedToFetch, ""} :
          /\ errorMessage' = showError(CaughtMessage(msg))
          /\ lastDone' = [outcome |-> "fetchRejected", status |-> 0,
                          displayCalled |-> FALSE,
                          message |-> CaughtMessage(msg)]
    /\ submitBtn' = setLoading(FALSE)
    /\ handlers' = Without(handlers, i)
    /\ lastEvent' = "settled"
    /\ UNCHANGED <<formFields, resultsVisible, formCardDisplay, summaryOf,
                   lastPost>>
    /\ UNCHANGED <<valVars, pipeVars, geoVars>>

\* response.json() settles; the rest of the try block, catch and finally run.
JsonSettle(i) ==
    /\ handlers[i].pc = "awaitJson"
    /\ \E body \in Bodies :
          LET h == handlers[i]
              r == HandleResponse(h.status, body)
          IN /\ errorMessage' = IF r.threw
                                THEN showError(CaughtMessage(r.message))
                                ELSE errorMessage
             /\ summaryOf' = IF r.summarySet THEN h.data ELSE summaryOf
             /\ formCardDisplay' = IF r.shown THEN "none" ELSE formCardDisplay
             /\ resultsVisible' = IF r.shown THEN TRUE ELSE resultsVisible
             /\ lastDone' =
                   [outcome |-> IF body.json = "invalid" THEN "jsonRejected"
                                ELSE IF ~ResponseOk(h.status) THEN "httpError"
                                ELSE IF r.threw THEN "displayThrew"
                                ELSE "success",
                    status |-> h.status,
                    displayCalled |-> r.displayCalled,
                    message |-> IF r.threw THEN CaughtMessage(r.message)
                                ELSE ""]
    /\ submitBtn' = setLoading(FALSE)
    /\ handlers' = Without(handlers, i)
    /\ lastEvent' = "settled"
    /\ UNCHANGED <<formFields, lastPost>>
    /\ UNCHANGED <<valVars, pipeVars, geoVars>>

\* The "new report" button's click listener.
NewReportClick ==
    /\ formFields' = EmptyFields
    /\ errorMessage' = hideError
    /\ resultsVisible' = FALSE
    /\ formCardDisplay' = "block"
    /\ lastEvent' = "newReport"
    /\ UNCHANGED <<submitBtn, summaryOf, handlers, lastPost, lastDone>>
    /\ UNCHANGED <<valVars, pipeVars, geoVars>>

Init ==
    /\ now \in {BaseDay * 1440 + 720}
    /\ tz \in {-300, 330}
    /\ call = NoCall
    /\ UIInit
    /\ PipeIdle
    /\ GeoIdle

Next ==
    \/ EditForm
    \/ Submit
    \/ \E i \in 1..Len(handlers) : FetchResolve(i)
    \/ \E i \in 1..Len(handlers) : FetchReject(i)
    \/ \E i \in 1..Len(handlers) : JsonSettle(i)
    \/ NewReportClick

Spec == Init /\ [][Next]_vars

(***************************************************************************)
(* Properties of the page.                                                 *)
(***************************************************************************)
\* C5: in the submit listener validation precedes submission.  A POST is
\* issued only in a submit step whose data validateForm accepted, and
\* carries that data.  When validateForm rejects, no request is sent, the
\* loading state is not entered (the button stays enabled) and the first
\* message of the errors list is displayed.
C5_ValidationBeforePost ==
    [][LET data == CollectData(formFields)
           validation == validateForm(data, now, tz)
       IN /\ (lastPost' # lastPost \/ Len(handlers') > Len(handlers))
                => /\ lastEvent' = "submit"
                   /\ validation.kind = "return"
                   /\ validation.valid
                   /\ lastPost' = data
                   /\ handlers' = Append(handlers, handlers'[Len(handlers')])
                   /\ handlers'[Len(handlers')].data = data
          /\ (lastEvent' = "submit" /\ validation.kind = "return"
                  /\ ~validation.valid)
                => /\ UNCHANGED <<lastPost, handlers>>
                   /\ submitBtn' = [disabled |-> FALSE, loading |-> FALSE]
                   /\ errorMessage' =
                         [visible |-> TRUE, text |-> validation.errors[1]]
      ]_vars

C5_Witness ==
    /\ lastEvent = "submit"
    /\ formFields.birth_time = Str(<<>>)
    /\ formFields.gender = Null
    /\ formFields.birth_date = Str(TextBirthDate)
    /\ errorMessage = [visible |-> TRUE, text |-> MsgTimeRequired]
    /\ lastPost # Null
    /\ handlers = <<>>
    /\ ~submitBtn.disabled

\* C7: when a report request ends in failure (the backend answers with a
\* status that is no success, or fetch or the parsing of the response
\* throws), displayResults is not called for it, and when the listener has
\* finished the results card is not visible, the form card is displayed and
\* an error message is visible.
C7_NoPartialSummary ==
    [][(/\ Len(handlers') < Len(handlers)
        /\ \/ lastDone'.outcome \in {"fetchRejected", "jsonRejected"}
           \/ lastDone'.status \notin 200..299)
          => /\ ~lastDone'.displayCalled
             /\ ~resultsVisible'
             /\ formCardDisplay' # "none"
             /\ errorMessage'.visible
             /\ errorMessage'.text # ""
      ]_vars

C7_Witness ==
    /\ lastEvent = "settled"
    /\ lastDone.outcome = "httpError"
    /\ lastDone.status = 500
    /\ ~lastDone.displayCalled
    /\ summaryOf # Null
    /\ errorMessage = [visible |-> TRUE, text |-> MsgBackendDetail]
    /\ ~resultsVisible
    /\ formCardDisplay = "block"

\* C8: whenever the backend answers a report request with status 429, the
\* message shown is the rate-limit message, whatever the body of the
\* response holds.
C8_RateLimitMessage ==
    (lastDone.outcome \in {"jsonRejected", "httpError", "displayThrew",
                           "success"}
        /\ lastDone.status = 429)
        => lastDone.message = MsgRateLimit

(***************************************************************************)
(* The page with a backend that may leave a request unanswered.  fetch is  *)
(* called without a signal or a timeout, so the promise of a request the   *)
(* backend never answers, or of a body that never ends, stays pending.     *)
(***************************************************************************)
\* The backend stops answering request i: its promise never settles.
NetworkStalls(i) ==
    /\ handlers[i].pc \in {"awaitFetch", "awaitJson"}
    /\ handlers' = [handlers EXCEPT ![i].pc = "stalled"]
    /\ lastEvent' = "stalled"
    /\ UNCHANGED <<formFields, submitBtn, errorMessage, resultsVisible,
                   formCardDisplay, summaryOf, lastPost, lastDone>>
    /\ UNCHANGED <<valVars, pipeVars, geoVars>>

\* A promise that is pending on a request the backend answers settles.
FetchSettles == \E i \in 1..Len(handlers) : FetchResolve(i) \/ FetchReject(i)
JsonSettles == \E i \in 1..Len(handlers) : JsonSettle(i)

NextLive ==
    \/ EditForm
    \/ Submit
    \/ FetchSettles
    \/ JsonSettles
    \/ \E i \in 1..Len(handlers) : NetworkStalls(i)
    \/ NewReportClick

\* Fairness: an answer that is on its way arrives, and the event loop runs
\* the listener's continuation.
FairSpec ==
    Init /\ [][NextLive]_vars /\ WF_vars(FetchSettles) /\ WF_vars(JsonSettles)

\* C11: every submission that enters the loading state leaves it: after
\* setLoading(true) the submit button is eventually enabled again and its
\* class 'loading' removed; the page does not stay blocked on the backend.
C11_LoadingEnds ==
    (submitBtn.disabled /\ submitBtn.loading)
        ~> (~submitBtn.disabled /\ ~submitBtn.loading)

\* C12: with submit events coming only from the enabled submit button, at
\* most one report request is in flight at any time: the button is disabled
\* exactly while a request is in flight (it is disabled in the step that
\* issues the request and enabled again only in the step that settles it),
\* so no two requests overlap, and a response that is displayed is that of
\* the newest request.
C12_OneRequestInFlight ==
    /\ [](/\ Len(handlers) <= 1
          /\ submitBtn.disabled <=> Len(handlers) = 1
          /\ Len(handlers) = 1 => handlers[1].data = lastPost)
    /\ [][/\ (~submitBtn.disabled /\ submitBtn'.disabled)
                => (lastEvent' = "submit" /\ Len(handlers') = Len(handlers) + 1)
          /\ (submitBtn.disabled /\ ~submitBtn'.disabled)
                => (lastEvent' = "settled" /\ handlers' = <<>>)
          /\ Len(handlers') < Len(handlers)
                => /\ Len(handlers) = 1
                   /\ summaryOf' \in {summaryOf, lastPost}
                   /\ resultsVisible' => summaryOf' = lastPost
          /\ Len(handlers') >= Len(handlers) => summaryOf' = summaryOf
      ]_vars

C12_Witness ==
    /\ Len(handlers) = 1
    /\ handlers[1].pc = "awaitJson"
    /\ submitBtn.disabled
    /\ summaryOf # Null
    /\ summaryOf # handlers[1].data
    /\ lastEvent = "newReport"
    /\ lastDone.outcome = "success"

(***************************************************************************)
(* The backend's pipeline orchestrator (written specification, 4.6 and 7). *)
(* Each request is one pipeline instance; instances share no state.        *)
(***************************************************************************)
\* How many requests the backend is given.
MaxPipelines == 2

StageOrder ==
    <<"Validating", "Geocoding", "Calculating", "Generating", "Assembling">>

StageIndex(stage) == CHOOSE i \in 1..Len(StageOrder) : StageOrder[i] = stage

\* The stage that begins when `stage` has completed.
NextStage_SkipGeocoding(stage) ==
    IF stage = "Validating" THEN "Calculating"
    ELSE IF StageIndex(stage) = Len(StageOrder) THEN "Done"
    ELSE StageOrder[StageIndex(stage) + 1]
NextStage(stage) ==
    IF StageIndex(stage) = Len(StageOrder) THEN "Done"
    ELSE StageOrder[StageIndex(stage) + 1]

\* The error kinds that are fatal in a stage.
ErrorKinds(stage) ==
    {"RateLimitExceeded"} \cup
    CASE stage = "Validating" -> {"ValidationError"}
      [] stage = "Geocoding" -> {}
      [] stage = "Calculating" -> {"CalculationServiceError"}
      [] stage = "Generating" -> {"NarrativeServiceError"}
      [] stage = "Assembling" -> {"ReportRenderError", "ReportConversionError"}

IsActive(p) == p.stage \in Range(StageOrder)

\* generateReport is called: a pipeline starts in its first stage.
PipelineStart ==
    /\ Len(pipelines) < MaxPipelines
    /\ pipelines' = Append(pipelines,
                           [stage |-> "Validating", completed |-> <<>>,
                            failedStage |-> "", errorKind |-> "",
                            geoFallback |-> FALSE])
    /\ UNCHANGED <<valVars, uiVars, geoVars>>

\* The stage p is in completes; its successor begins.
StageCompletes(p) ==
    /\ IsActive(pipelines[p])
    /\ pipelines' = [pipelines EXCEPT
                        ![p].completed = Append(@, pipelines[p].stage),
                        ![p].stage = NextStage(@)]
    /\ UNCHANGED <<valVars, uiVars, geoVars>>

\* The geocoding provider fails: the resolver answers with the fallback
\* (UTC), and the stage completes.
GeocodingFallback(p) ==
    /\ pipelines[p].stage = "Geocoding"
    /\ pipelines' = [pipelines EXCEPT
                        ![p].completed = Append(@, "Geocoding"),
                        ![p].geoFallback = TRUE,
                        ![p].stage = NextStage(@)]
    /\ UNCHANGED <<valVars, uiVars, geoVars>>

\* The stage p is in fails: the pipeline ends in Failed(stage, errorKind).
StageFails(p) ==
    /\ IsActive(pipelines[p])
    /\ \E kind \in ErrorKinds(pipelines[p].stage) :
          pipelines' = [pipelines EXCEPT
                           ![p].failedStage = pipelines[p].stage,
                           ![p].errorKind = kind,
                           ![p].stage = "Failed"]
    /\ UNCHANGED <<valVars, uiVars, geoVars>>

PipeInit ==
    /\ now \in {BaseDay * 1440 + 720}
    /\ tz \in {0}
    /\ call = NoCall
    /\ UIIdle
    /\ PipeIdle
    /\ GeoIdle

PipeNext ==
    \/ PipelineStart
    \/ \E p \in 1..Len(pipelines) : StageCompletes(p)
    \/ \E p \in 1..Len(pipelines) : GeocodingFallback(p)
    \/ \E p \in 1..Len(pipelines) : StageFails(p)

SpecPipeline == PipeInit /\ [][PipeNext]_vars

\* The stages before `stage`, in order.
StagesBefore(stage) == SubSeq(StageOrder, 1, StageIndex(stage) - 1)

\* C6: a request moves through Validating, Geocoding, Calculating,
\* Generating, Assembling, Done in strict sequence: a stage begins only when
\* its predecessor has completed, Done is reached only with the five stages
\* completed in that order, and Failed(stage, errorKind) is terminal: it is
\* entered from a stage that was running, and nothing begins after it.
C6_StrictSequence ==
    /\ [](\A p \in 1..Len(pipelines) :
             LET q == pipelines[p]
             IN /\ IsActive(q) => q.completed = StagesBefore(q.stage)
                /\ q.stage = "Done" => q.completed = StageOrder
                /\ q.stage = "Failed" =>
                      /\ q.failedStage \in Range(StageOrder)
                      /\ q.completed = StagesBefore(q.failedStage)
                      /\ q.errorKind \in ErrorKinds(q.failedStage)
                /\ q.stage \in Range(StageOrder) \cup {"Done", "Failed"})
    /\ [][\A p \in 1..Len(pipelines) :
             LET q == pipelines[p]
                 r == pipelines'[p]
             IN /\ q.stage = "Failed" => r = q
                /\ r.stage # q.stage =>
                      \/ r.stage = "Failed" /\ r.failedStage = q.stage
                                            /\ r.completed = q.completed
                      \/ /\ IsActive(q)
                         /\ r.completed = Append(q.completed, q.stage)
                         /\ StageIndex(q.stage) < Len(StageOrder)
                               => r.stage = StageOrder[StageIndex(q.stage) + 1]
                         /\ StageIndex(q.stage) = Len(StageOrder)
                               => r.stage = "Done"
      ]_vars

C6_Witness ==
    /\ Len(pipelines) = 2
    /\ pipelines[1].stage = "Done"
    /\ pipelines[1].completed = StageOrder
    /\ pipelines[2].stage = "Failed"
    /\ pipelines[2].failedStage = "Generating"
    /\ pipelines[2].errorKind = "NarrativeServiceError"

(***************************************************************************)
(* The backend's geocoding resolver (written specification, 4.2 and 5).    *)
(***************************************************************************)
\* How many resolutions the resolver is asked for.
MaxResolutions == 2

UpperCase == <<"R", "O", "M", "E", "S", "L">>
LowerCase == <<"r", "o", "m", "e", "s", "l">>

\* Case folding of one character.
FoldChar(c) ==
    IF \E i \in 1..Len(UpperCase) : UpperCase[i] = c
    THEN LowerCase[CHOOSE i \in 1..Len(UpperCase) : UpperCase[i] = c]
    ELSE c

CaseFold(s) == [i \in 1..Len(s) |-> FoldChar(s[i])]

\* The cache key of a location text: trimmed and case-folded.
Normalize_TrimOnly(text) == Trim(text)
Normalize(text) == CaseFold(Trim(text))

\* The location texts that are resolved.
GeoTexts ==
    {<<"R", "o", "m", "e">>, <<" ", "r", "o", "m", "e", " ">>,
     <<"R", "O", "M", "E">>, <<"O", "s", "l", "o">>}

\* Two texts are the same location text once trimmed and case-folded.
SameLocation(a, b) == CaseFold(Trim(a)) = CaseFold(Trim(b))

\* resolve(text) begins: the cache is looked up under the normalized text.
\* A hit answers at once; a miss goes on to the rate limiter.  priorSuccess
\* notes whether a resolution of the same location text had already
\* completed successfully.
ResolveStart ==
    /\ Len(resolvers) < MaxResolutions
    /\ \E text \in GeoTexts :
          LET hit == Normalize(text) \in geoCache
              prior == \E i \in 1..Len(resolvers) :
                          /\ resolvers[i].result = "resolved"
                          /\ SameLocation(resolvers[i].text, text)
          IN resolvers' = Append(resolvers,
                 [text |-> text,
                  pc |-> IF hit THEN "done" ELSE "awaitPermit",
                  result |-> IF hit THEN "cached" ELSE "none",
                  calls |-> 0, tookPermit |-> FALSE,
                  priorSuccess |-> prior])
    /\ UNCHANGED <<geoCache, geoCalls, limiterPermit>>
    /\ UNCHANGED <<valVars, uiVars, pipeVars>>

\* The limiter grants its permit: the outbound call is issued.
AcquirePermit(r) ==
    /\ resolvers[r].pc = "awaitPermit"
    /\ limiterPermit
    /\ limiterPermit' = FALSE
    /\ geoCalls' = Append(geoCalls, Normalize(resolvers[r].text))
    /\ resolvers' = [resolvers EXCEPT ![r].pc = "calling",
                                      ![r].calls = @ + 1,
                                      ![r].tookPermit = TRUE]
    /\ UNCHANGED geoCache
    /\ UNCHANGED <<valVars, uiVars, pipeVars>>

\* The provider answers: the resolution is cached under the normalized text.
ProviderAnswers(r) ==
    /\ resolvers[r].pc = "calling"
    /\ geoCache' = geoCache \cup {Normalize(resolvers[r].text)}
    /\ resolvers' = [resolvers EXCEPT ![r].pc = "done",
                                      ![r].result = "resolved"]
    /\ UNCHANGED <<geoCalls, limiterPermit>>
    /\ UNCHANGED <<valVars, uiVars, pipeVars>>

\* The provider fails or times out: the fallback (UTC) is returned and
\* nothing is cached.
ProviderFails(r) ==
    /\ resolvers[r].pc = "calling"
    /\ resolvers' = [resolvers EXCEPT ![r].pc = "done",
                                      ![r].result = "fallback"]
    /\ UNCHANGED <<geoCache, geoCalls, limiterPermit>>
    /\ UNCHANGED <<valVars, uiVars, pipeVars>>

\* A second passes: the limiter has a permit again.
LimiterTick ==
    /\ ~limiterPermit
    /\ limiterPermit' = TRUE
    /\ UNCHANGED <<resolvers, geoCache, geoCalls>>
    /\ UNCHANGED <<valVars, uiVars, pipeVars>>

GeoInit ==
    /\ now \in {BaseDay * 1440 + 720}
    /\ tz \in {0}
    /\ call = NoCall
    /\ UIIdle
    /\ PipeIdle
    /\ GeoIdle

GeoNext ==
    \/ ResolveStart
    \/ \E r \in 1..Len(resolvers) : AcquirePermit(r)
    \/ \E r \in 1..Len(resolvers) : ProviderAnswers(r)
    \/ \E r \in 1..Len(resolvers) : ProviderFails(r)
    \/ LimiterTick

SpecGeo == GeoInit /\ [][GeoNext]_vars

\* The outbound calls issued for the location text `text`.
CallsFor(text) ==
    Cardinality({k \in 1..Len(geoCalls) :
                    geoCalls[k] = CaseFold(Trim(text))})

\* C9: for any two resolutions of the same normalized location text within
\* one process, at most one outbound call goes to the provider.
C9_AtMostOneCall ==
    \A i, j \in 1..Len(resolvers) :
        (i # j /\ SameLocation(resolvers[i].text, resolvers[j].text))
            => CallsFor(resolvers[i].text) <= 1

\* C9, amended: a resolution that begins after a resolution of the same
\* normalized location text has completed successfully is a cache hit: it
\* issues no outbound call and does not pass the rate limiter.
C9_HitAfterSuccess ==
    \A j \in 1..Len(resolvers) :
        resolvers[j].priorSuccess
            => /\ resolvers[j].result = "cached"
               /\ resolvers[j].pc = "done"
               /\ resolvers[j].calls = 0
               /\ ~resolvers[j].tookPermit

C9_Witness ==
    /\ Len(resolvers) = 2
    /\ resolvers[1].result = "resolved"
    /\ resolvers[2].priorSuccess
    /\ resolvers[2].text # resolvers[1].text
    /\ resolvers[2].result = "cached"
    /\ Len(geoCalls) = 1
====
